---- MODULE Spec2Model ----
(***************************************************************************)
(* Model of the two connectors' logic:                                     *)
(*   - alienvault/importer.py : PulseImporter.run (watermark state, the    *)
(*     malware guess cache, one bundle sent per pulse);                    *)
(*   - crowdstrike/utils.py   : paginate / next_batch (the generator that  *)
(*     pages through an API) and create_relationships.                     *)
(***************************************************************************)
EXTENDS Integers, Sequences, FiniteSets, TLC

(* ------------------------------ bounds -------------------------------- *)

\* datetimes are the ticks 0..MaxTime
MaxTime == 2
\* the client returns at most MaxPulses pulses per fetch
MaxPulses == 2
\* a pulse carries at most MaxTags tags
MaxTags == 2
\* the API reports totals 0..MaxTotal
MaxTotal == 3
\* paginate is called with a limit in 0..MaxLimit
MaxLimit == 2
\* create_relationships is given at most MaxObjects sources and targets
MaxObjects == 2

(* ----------------------------- helpers -------------------------------- *)

\* Python's None
None == "None"

Range(s) == {s[i] : i \in 1..Len(s)}

SeqsUpTo(S, n) == UNION {[1..k -> S] : k \in 0..n}

\* a dict with no key
EmptyDict == [k \in {} |-> None]

\* dict.get(key, default)
DictGet(d, key, default) == IF key \in DOMAIN d THEN d[key] ELSE default

\* d[key] = value
DictSet(d, key, value) ==
    [k \in (DOMAIN d) \cup {key} |-> IF k = key THEN value ELSE d[k]]

(* ------------------- alienvault: PulseImporter ------------------------ *)

LATEST_PULSE_TIMESTAMP == "latest_pulse_timestamp"

GUESS_NOT_A_MALWARE == "GUESS_NOT_A_MALWARE"

Times == 0..MaxTime

\* datetime.isoformat(): the ISO 8601 string of a datetime
IsoFormat(t) == <<"iso8601", t>>

\* alienvault.utils.iso_datetime_str_to_datetime: the datetime of an ISO string
iso_datetime_str_to_datetime(s) == s[2]

\* the configured default_latest_timestamp (an ISO string)
default_latest_timestamp == IsoFormat(1)

\* the tags a pulse may carry; "" is the empty tag
Tags == {"", "a", "b"}

TagLists == SeqsUpTo(Tags, MaxTags)

\* the tag lists of the pulses returned to run
RunTagLists == {<<>>, <<"", "a">>}

\* a pulse as far as the importer reads it: pulse.modified and pulse.tags
Pulses == [modified : Times, tags : RunTagLists]

\* malwares of the platform, as returned by helper.api.malware.list
M1 == [stix_id_key |-> "malware--1", name |-> "a", aliases |-> {}]
M2 == [stix_id_key |-> "malware--2", name |-> "b", aliases |-> {"a"}]
M3 == [stix_id_key |-> "malware--3", name |-> "a", aliases |-> {"b"}]
M4 == [stix_id_key |-> "malware--4", name |-> "c", aliases |-> {"a", "b"}]

\* the contents the platform may have, in the order it lists them
Platforms == {<<>>, <<M1>>, <<M2, M1>>, <<M3, M1>>, <<M4, M2>>}

\* the contents the platform may have during the runs of the importer
RunPlatforms == {<<>>, <<M1>>}

VARIABLES
    \* the connector state handed to the next run (what the last run returned)
    state,
    \* constructor arguments of the importer
    update_existing_data, guess_malware,
    \* self.malware_guess_cache
    malware_guess_cache,
    \* position of run: "idle" (never run), "loop" (in the for loop),
    \* "returned" (run has returned its state), "raised" (run was left by
    \* an exception)
    pc,
    \* whether the current (or last) run was given the state a run returned
    chained,
    \* locals of run
    fetch_datetime, latest_fetched_indicator_datetime, pulses, idx,
    \* the malwares on the platform
    platform,
    \* calls made by the current run, in order:
    \* client.get_pulses_subscribed, helper.send_stix2_bundle,
    \* _fetch_malware_stix_id_by_name
    fetch_calls, sent, lookups,
    \* the last direct call of _guess_malwares_from_tags: its tags and the
    \* dict it returned; and, per tag, the guess its first occurrence got
    \* since the cache was last cleared
    call_tags, call_malwares, first_guess

importerVars ==
    <<state, update_existing_data, guess_malware, malware_guess_cache, pc,
      chained, fetch_datetime, latest_fetched_indicator_datetime, pulses, idx,
      platform, fetch_calls, sent, lookups>>

guessVars == <<call_tags, call_malwares, first_guess>>

VARIABLES
    \* position of the generator wrapper_paginate returns: "suspended" (not
    \* started, or at its yield), "running" (resumed by the consumer's
    \* next()), "done" (exhausted)
    gen_pc,
    \* locals of wrapper_paginate: _limit, _offset, _total, response
    limit, offset, total, response,
    \* the value the generator handed to its consumer at the last yield
    yield_value,
    \* the first MaxLog calls of func (their limit and offset), the
    \* resources of the responses to them, and the first MaxLog values
    \* yielded
    requests, received, yielded,
    \* the meta.pagination of every response so far
    paginations_seen

paginateVars ==
    <<gen_pc, limit, offset, total, response, yield_value, requests, received,
      yielded, paginations_seen>>

VARIABLES
    \* the last call of one of the create_*relationships functions and the
    \* list it returned
    rel_call, relationships

relVars == <<rel_call, relationships>>

vars == <<importerVars, guessVars, paginateVars, relVars>>

\* helper.api.malware.list(filters=[{key, values: [value]}])
MalwareList(plat, key, value) ==
    LET Match(m) == IF key = "name" THEN m.name = value ELSE value \in m.aliases
    IN  SelectSeq(plat, Match)

\* a lookup that tries the alias filter before the name filter
fetch_malware_stix_id_alias_first(plat, name) ==
    LET byName == MalwareList(plat, "name", name)
        byAlias == MalwareList(plat, "alias", name)
    IN  IF byAlias # <<>> THEN byAlias[1].stix_id_key
        ELSE IF byName # <<>> THEN byName[1].stix_id_key
        ELSE None

\* _fetch_malware_stix_id_by_name: the name filter first, then the alias filter
fetch_malware_stix_id_by_name(plat, name) ==
    LET byName == MalwareList(plat, "name", name)
        byAlias == MalwareList(plat, "alias", name)
    IN  IF byName # <<>> THEN byName[1].stix_id_key
        ELSE IF byAlias # <<>> THEN byAlias[1].stix_id_key
        ELSE None

\* a cache that keeps only the tags that resolved to a malware
CacheGuessOnlyMalware(cache, tag, guess) ==
    IF guess = GUESS_NOT_A_MALWARE THEN cache ELSE DictSet(cache, tag, guess)

\* self.malware_guess_cache[tag] = guess
CacheGuess(cache, tag, guess) == DictSet(cache, tag, guess)

\* the for loop of _guess_malwares_from_tags from tag i on; acc holds the
\* malwares dict, the cache and the lookups made so far
RECURSIVE GuessLoop(_, _, _, _)
GuessLoop(tags, i, plat, acc) ==
    IF i > Len(tags) THEN acc
    ELSE LET tag == tags[i] IN
         IF tag = "" THEN GuessLoop(tags, i + 1, plat, acc)
         ELSE LET cached == DictGet(acc.cache, tag, None)
                  stix_id == fetch_malware_stix_id_by_name(plat, tag)
                  guess == IF cached # None THEN cached
                           ELSE IF stix_id # None THEN stix_id
                           ELSE GUESS_NOT_A_MALWARE
                  cache2 == IF cached # None THEN acc.cache
                            ELSE CacheGuess(acc.cache, tag, guess)
                  lookups2 == IF cached # None THEN acc.lookups
                              ELSE Append(acc.lookups, tag)
                  malwares2 == IF guess = GUESS_NOT_A_MALWARE THEN acc.malwares
                               ELSE DictSet(acc.malwares, tag, guess)
              IN  GuessLoop(tags, i + 1, plat,
                            [malwares |-> malwares2, cache |-> cache2,
                             lookups |-> lookups2])

\* _guess_malwares_from_tags: the returned dict, the cache and the lookups after
guess_malwares_from_tags(enabled, tags, plat, cache, looked) ==
    IF ~enabled
    THEN [malwares |-> EmptyDict, cache |-> cache, lookups |-> looked]
    ELSE GuessLoop(tags, 1, plat,
                   [malwares |-> EmptyDict, cache |-> cache, lookups |-> looked])

\* _create_pulse_bundle: the bundle built from the pulse and the guessed malwares
create_pulse_bundle(pulse, guessed_malwares) ==
    [pulse |-> pulse, guessed_malwares |-> guessed_malwares]

\* bundle.serialize()
Serialize(bundle) == <<"json", bundle>>

\* a send that ignores the configured update_existing_data
send_bundle_no_update(bundle, update) ==
    [bundle |-> Serialize(bundle), entities_types |-> None,
     update |-> FALSE, split |-> FALSE]

\* _send_bundle: the arguments of helper.send_stix2_bundle
send_bundle(bundle, update) ==
    [bundle |-> Serialize(bundle), entities_types |-> None,
     update |-> update, split |-> FALSE]

\* a run that always fetches from the configured default
FetchTimestampDefaultOnly(st) == default_latest_timestamp

\* the timestamp run fetches from: the state's watermark, else the default
FetchTimestamp(st) ==
    DictGet(st, LATEST_PULSE_TIMESTAMP, default_latest_timestamp)

\* a run that starts its maximum from the earliest datetime
InitialLatestEpoch(fetch_dt) == 0

\* latest_fetched_indicator_datetime before the for loop
InitialLatest(fetch_dt) == fetch_dt

\* a loop that keeps the modified time of the pulse processed last
NewLatestLastPulse(latest, modified) == modified

\* the comparison of the for loop of run
NewLatest(latest, modified) == IF modified > latest THEN modified ELSE latest

\* a run that hands back the watermark it reached when it fails
StateAdvancedOnRaise(st, latest) ==
    [k \in {LATEST_PULSE_TIMESTAMP} |-> IsoFormat(latest)]

\* the state the caller is left with when run raises: run has no handler
\* and returns nothing, so the state it was given
StateOnRaise(st, latest) == st

\* a run that keeps the cache of the run before
keep_malware_guess_cache(cache) == cache

\* _clear_malware_guess_cache: self.malware_guess_cache.clear()
clear_malware_guess_cache(cache) == EmptyDict

\* the importer after __init__, its arguments and the platform drawn from
\* the given sets
ImporterConstructed(states, updates, guesses, platforms) ==
    /\ state \in states
    /\ update_existing_data \in updates
    /\ guess_malware \in guesses
    /\ malware_guess_cache = EmptyDict
    /\ pc = "idle"
    /\ chained = FALSE
    /\ fetch_datetime = 0
    /\ latest_fetched_indicator_datetime = 0
    /\ pulses = <<>>
    /\ idx = 1
    /\ platform \in platforms
    /\ fetch_calls = <<>>
    /\ sent = <<>>
    /\ lookups = <<>>
    /\ call_tags = <<>>
    /\ call_malwares = EmptyDict
    /\ first_guess = EmptyDict

InitImporter ==
    ImporterConstructed(
        {EmptyDict}
            \cup {[k \in {LATEST_PULSE_TIMESTAMP} |-> IsoFormat(t)] : t \in Times},
        BOOLEAN, BOOLEAN, RunPlatforms)

\* the importer constructed, before any run
InitGuess == ImporterConstructed({EmptyDict}, {FALSE}, BOOLEAN, Platforms)

\* the importer constructed and left alone
ImporterUnused == ImporterConstructed({EmptyDict}, {FALSE}, {FALSE}, {<<>>})

\* run, up to the for loop: clear the cache, read the watermark, fetch
RunStart ==
    /\ pc \in {"idle", "returned", "raised"}
    /\ chained' = IF pc = "raised" THEN chained ELSE pc = "returned"
    /\ LET fetch_timestamp == FetchTimestamp(state)
           dt == iso_datetime_str_to_datetime(fetch_timestamp)
       IN  /\ malware_guess_cache' =
                  clear_malware_guess_cache(malware_guess_cache)
           /\ fetch_datetime' = dt
           /\ latest_fetched_indicator_datetime' = InitialLatest(dt)
           /\ fetch_calls' = <<dt>>
    /\ pulses' \in SeqsUpTo(Pulses, MaxPulses)
    /\ idx' = 1
    /\ sent' = <<>>
    /\ lookups' = <<>>
    /\ pc' = "loop"
    /\ UNCHANGED <<state, update_existing_data, guess_malware, platform>>
    /\ UNCHANGED <<guessVars, paginateVars, relVars>>

\* run, when client.get_pulses_subscribed raises: the cache is cleared, the
\* fetch is attempted and the exception leaves run (its locals are gone)
FetchRaises ==
    /\ pc \in {"idle", "returned", "raised"}
    /\ chained' = IF pc = "raised" THEN chained ELSE pc = "returned"
    /\ LET fetch_timestamp == FetchTimestamp(state)
           dt == iso_datetime_str_to_datetime(fetch_timestamp)
       IN  /\ malware_guess_cache' =
                  clear_malware_guess_cache(malware_guess_cache)
           /\ fetch_calls' = <<dt>>
           /\ state' = StateOnRaise(state, dt)
    /\ fetch_datetime' = 0
    /\ latest_fetched_indicator_datetime' = 0
    /\ pulses' = <<>>
    /\ idx' = 1
    /\ sent' = <<>>
    /\ lookups' = <<>>
    /\ pc' = "raised"
    /\ UNCHANGED <<update_existing_data, guess_malware, platform>>
    /\ UNCHANGED <<guessVars, paginateVars, relVars>>

\* an iteration of the for loop in which _process_pulse raises, building the
\* bundle (while the malwares are guessed, after n of the pulse's tags, or
\* in the builder after all of them) or sending it: nothing is sent for the
\* pulse and the exception leaves run (its locals are gone)
ProcessPulseRaises ==
    /\ pc = "loop"
    /\ idx <= Len(pulses)
    /\ \E n \in 0..Len(pulses[idx].tags) :
           LET pulse == pulses[idx]
               g == guess_malwares_from_tags(guess_malware,
                                             SubSeq(pulse.tags, 1, n), platform,
                                             malware_guess_cache, lookups)
           IN  /\ malware_guess_cache' = g.cache
               /\ lookups' = g.lookups
    /\ state' = StateOnRaise(state, latest_fetched_indicator_datetime)
    /\ fetch_datetime' = 0
    /\ latest_fetched_indicator_datetime' = 0
    /\ pulses' = <<>>
    /\ idx' = 1
    /\ pc' = "raised"
    /\ UNCHANGED <<update_existing_data, guess_malware, chained, platform,
                   fetch_calls, sent>>
    /\ UNCHANGED <<guessVars, paginateVars, relVars>>

\* one iteration of the for loop: _process_pulse, then the watermark update
ProcessPulse ==
    /\ pc = "loop"
    /\ idx <= Len(pulses)
    /\ LET pulse == pulses[idx]
           g == guess_malwares_from_tags(guess_malware, pulse.tags, platform,
                                         malware_guess_cache, lookups)
           pulse_bundle == create_pulse_bundle(pulse, g.malwares)
       IN  /\ malware_guess_cache' = g.cache
           /\ lookups' = g.lookups
           /\ sent' = Append(sent, send_bundle(pulse_bundle, update_existing_data))
           /\ latest_fetched_indicator_datetime' =
                  NewLatest(latest_fetched_indicator_datetime, pulse.modified)
    /\ idx' = idx + 1
    /\ UNCHANGED <<state, update_existing_data, guess_malware, pc, chained,
                   fetch_datetime, pulses, platform, fetch_calls>>
    /\ UNCHANGED <<guessVars, paginateVars, relVars>>

\* the end of run: the new state is returned and becomes the next run's state
RunReturn ==
    /\ pc = "loop"
    /\ idx > Len(pulses)
    /\ state' = [k \in {LATEST_PULSE_TIMESTAMP} |->
                    IsoFormat(latest_fetched_indicator_datetime)]
    /\ pc' = "returned"
    /\ UNCHANGED <<update_existing_data, guess_malware, malware_guess_cache,
                   chained, fetch_datetime, latest_fetched_indicator_datetime, pulses,
                   idx, platform, fetch_calls, sent, lookups>>
    /\ UNCHANGED <<guessVars, paginateVars, relVars>>

\* the platform's malwares change (other connectors, the workers ingesting
\* the bundles sent)
PlatformChange(platforms) ==
    /\ platform' \in platforms \ {platform}
    /\ UNCHANGED <<state, update_existing_data, guess_malware,
                   malware_guess_cache, pc, chained, fetch_datetime,
                   latest_fetched_indicator_datetime, pulses, idx,
                   fetch_calls, sent, lookups>>
    /\ UNCHANGED <<guessVars, paginateVars, relVars>>

\* the guess a returned dict gives a tag
GuessOf(malwares, tag) == DictGet(malwares, tag, GUESS_NOT_A_MALWARE)

\* _clear_malware_guess_cache, as run calls it before anything else
ClearCache ==
    /\ malware_guess_cache' = clear_malware_guess_cache(malware_guess_cache)
    /\ lookups' = <<>>
    /\ first_guess' = EmptyDict
    /\ call_tags' = <<>>
    /\ call_malwares' = EmptyDict
    /\ UNCHANGED <<state, update_existing_data, guess_malware, pc, chained,
                   fetch_datetime, latest_fetched_indicator_datetime, pulses,
                   idx, platform, fetch_calls, sent>>
    /\ UNCHANGED <<paginateVars, relVars>>

\* one call of _guess_malwares_from_tags on the tags of a pulse
GuessCall ==
    \E tags \in TagLists :
        LET g == guess_malwares_from_tags(guess_malware, tags, platform,
                                          malware_guess_cache, lookups)
            fresh == {t \in Range(tags) : t # "" /\ t \notin DOMAIN first_guess}
        IN  /\ malware_guess_cache' = g.cache
            /\ lookups' = g.lookups
            /\ call_tags' = tags
            /\ call_malwares' = g.malwares
            /\ first_guess' =
                   [t \in (DOMAIN first_guess) \cup fresh |->
                       IF t \in fresh THEN GuessOf(g.malwares, t)
                       ELSE first_guess[t]]
            /\ UNCHANGED <<state, update_existing_data, guess_malware, pc,
                           chained, fetch_datetime,
                           latest_fetched_indicator_datetime,
                           pulses, idx, platform, fetch_calls, sent>>
            /\ UNCHANGED <<paginateVars, relVars>>

(* ------------------ crowdstrike: paginate, next_batch ----------------- *)

Limits == 0..MaxLimit

Totals == 0..MaxTotal

\* the logs hold the first MaxLog entries: more than any call needs whose
\* responses all report one total and whose limit is at least 1
MaxLog == MaxTotal + 1

LogAppend(log, x) == IF Len(log) < MaxLog THEN Append(log, x) ELSE log

\* response.errors
ErrorLists == {<<>>, <<[message |-> "error", code |-> 500]>>}

\* response.resources
ResourceLists == {<<>>, <<"r1", "r2">>}

\* response.meta.pagination to a request: <<>> is None; the server echoes
\* the requested limit and offset, or values of its own
Paginations(lim, off) ==
    {<<>>} \cup
    {<<[limit |-> e[1], offset |-> e[2], total |-> t]>> :
        e \in {<<lim, off>>, <<lim + 1, off + 1>>}, t \in Totals}

\* the responses func may give to a request
Responses(lim, off) ==
    [errors : ErrorLists, pagination : Paginations(lim, off),
     resources : ResourceLists]

\* next_batch; total is <<>> for None
next_batch(lim, off, tot) ==
    IF tot = <<>> THEN TRUE ELSE (tot[1] - off) > 0

\* a loop that advances the offset by the number of resources received
LoopBodyOffsetByReceived(lim, off, tot, rsp) ==
    LET paginated == rsp.pagination # <<>>
    IN  [offset |-> IF paginated THEN off + Len(rsp.resources) ELSE off,
         total |-> IF paginated THEN <<rsp.pagination[1].total>> ELSE tot,
         yields |-> <<rsp.resources>>,
         pc |-> "suspended"]

\* a loop that gives up on a response that reports errors
LoopBodyAbortOnErrors(lim, off, tot, rsp) ==
    LET paginated == rsp.pagination # <<>>
    IN  IF rsp.errors # <<>>
        THEN [offset |-> off, total |-> tot, yields |-> <<>>, pc |-> "done"]
        ELSE [offset |-> IF paginated THEN off + lim ELSE off,
              total |-> IF paginated THEN <<rsp.pagination[1].total>> ELSE tot,
              yields |-> <<rsp.resources>>,
              pc |-> "suspended"]

\* the body of the while loop of wrapper_paginate once func has answered:
\* the new _offset and _total, the values yielded and where the generator
\* is afterwards
LoopBody(lim, off, tot, rsp) ==
    LET paginated == rsp.pagination # <<>>
    IN  [offset |-> IF paginated THEN off + lim ELSE off,
         total |-> IF paginated THEN <<rsp.pagination[1].total>> ELSE tot,
         yields |-> <<rsp.resources>>,
         pc |-> "suspended"]

\* wrapper_paginate(limit=lim) returns a generator that has not started
PaginateCalled(limits) ==
    /\ gen_pc = "suspended"
    /\ limit \in limits
    /\ offset = 0
    /\ total = <<>>
    /\ response = [errors |-> <<>>, pagination |-> <<>>, resources |-> <<>>]
    /\ yield_value = <<>>
    /\ requests = <<>>
    /\ received = <<>>
    /\ yielded = <<>>
    /\ paginations_seen = {}

InitPaginate == PaginateCalled(Limits)

PaginateUnused == PaginateCalled({0})

\* the consumer asks for the next batch: next() resumes the generator
ConsumerNext ==
    /\ gen_pc = "suspended"
    /\ gen_pc' = "running"
    /\ UNCHANGED <<limit, offset, total, response, yield_value, requests,
                   received, yielded, paginations_seen>>
    /\ UNCHANGED <<importerVars, guessVars, relVars>>

\* one turn of the while loop: the call of func, its response handled, up
\* to the yield
GeneratorRequest ==
    /\ gen_pc = "running"
    /\ next_batch(limit, offset, total)
    /\ \E rsp \in Responses(limit, offset) :
           LET after == LoopBody(limit, offset, total, rsp)
           IN  /\ response' = rsp
               /\ requests' =
                      LogAppend(requests, [limit |-> limit, offset |-> offset])
               /\ received' = LogAppend(received, rsp.resources)
               /\ paginations_seen' =
                      paginations_seen \cup
                      {IF rsp.pagination = <<>> THEN <<>>
                       ELSE <<rsp.pagination[1].total>>}
               /\ offset' = after.offset
               /\ total' = after.total
               /\ yield_value' =
                      IF after.yields = <<>> THEN yield_value
                      ELSE after.yields[Len(after.yields)]
               /\ yielded' =
                      IF after.yields = <<>> THEN yielded
                      ELSE LogAppend(yielded, after.yields[1])
               /\ gen_pc' = after.pc
    /\ UNCHANGED limit
    /\ UNCHANGED <<importerVars, guessVars, relVars>>

\* the while condition fails: the generator returns
GeneratorStop ==
    /\ gen_pc = "running"
    /\ ~next_batch(limit, offset, total)
    /\ gen_pc' = "done"
    /\ UNCHANGED <<limit, offset, total, response, yield_value, requests,
                   received, yielded, paginations_seen>>
    /\ UNCHANGED <<importerVars, guessVars, relVars>>

(* ------------------ crowdstrike: create_relationships ----------------- *)

\* STIX domain objects, as far as create_relationship reads them
Objects ==
    {[id |-> "intrusion-set--1"], [id |-> "malware--2"], [id |-> "identity--3"]}

ObjectLists == SeqsUpTo(Objects, MaxObjects)

RelationshipTypes == {"targets", "uses", "indicates", "related-to"}

\* a relationship with its two references exchanged
create_relationship_swapped(relationship_type, source, target) ==
    [relationship_type |-> relationship_type,
     source_ref |-> target.id,
     target_ref |-> source.id]

\* create_relationship: the Relationship's type and references (its other
\* properties are the arguments handed through unchanged)
create_relationship(relationship_type, source, target) ==
    [relationship_type |-> relationship_type,
     source_ref |-> source.id,
     target_ref |-> target.id]

\* the inner for loop of create_relationships, from target j on
RECURSIVE TargetsLoop(_, _, _, _, _)
TargetsLoop(relationship_type, source, targets, j, rels) ==
    IF j > Len(targets) THEN rels
    ELSE TargetsLoop(relationship_type, source, targets, j + 1,
             Append(rels,
                    create_relationship(relationship_type, source, targets[j])))

\* the outer for loop of create_relationships, from source i on
RECURSIVE SourcesLoop(_, _, _, _, _)
SourcesLoop(relationship_type, sources, targets, i, rels) ==
    IF i > Len(sources) THEN rels
    ELSE SourcesLoop(relationship_type, sources, targets, i + 1,
             TargetsLoop(relationship_type, sources[i], targets, 1, rels))

create_relationships(relationship_type, sources, targets) ==
    SourcesLoop(relationship_type, sources, targets, 1, <<>>)

create_targets_relationships(sources, targets) ==
    create_relationships("targets", sources, targets)

create_uses_relationships(sources, targets) ==
    create_relationships("uses", sources, targets)

create_indicates_relationships(sources, targets) ==
    create_relationships("indicates", sources, targets)

NoCall == [fn |-> None, relationship_type |-> None,
           sources |-> <<>>, targets |-> <<>>]

InitRelationships ==
    /\ rel_call = NoCall
    /\ relationships = <<>>

\* a call of create_relationships
CallCreateRelationships ==
    /\ rel_call = NoCall
    /\ \E t \in RelationshipTypes, s \in ObjectLists, g \in ObjectLists :
           /\ rel_call' = [fn |-> "create_relationships",
                           relationship_type |-> t,
                           sources |-> s, targets |-> g]
           /\ relationships' = create_relationships(t, s, g)
    /\ UNCHANGED <<importerVars, guessVars, paginateVars>>

\* a call of create_targets_relationships, create_uses_relationships or
\* create_indicates_relationships
CallCreateTyped ==
    /\ rel_call = NoCall
    /\ \E fn \in {"create_targets_relationships", "create_uses_relationships",
                  "create_indicates_relationships"},
          s \in ObjectLists, g \in ObjectLists :
           /\ rel_call' = [fn |-> fn, relationship_type |-> None,
                           sources |-> s, targets |-> g]
           /\ relationships' =
                  CASE fn = "create_targets_relationships" ->
                           create_targets_relationships(s, g)
                    [] fn = "create_uses_relationships" ->
                           create_uses_relationships(s, g)
                    [] OTHER -> create_indicates_relationships(s, g)
    /\ UNCHANGED <<importerVars, guessVars, paginateVars>>

(* --------------------------- specifications --------------------------- *)

\* runs of the importer, each started from the state the last one returned
\* or, after a run that raised, from the state that run was given
Init == InitImporter /\ PaginateUnused /\ InitRelationships

Next ==
    \/ RunStart
    \/ FetchRaises
    \/ ProcessPulse
    \/ ProcessPulseRaises
    \/ RunReturn
    \/ PlatformChange(RunPlatforms)

Spec == Init /\ [][Next]_vars

\* _guess_malwares_from_tags called on arbitrary tag lists, the cache cleared
\* from time to time (a new run), the platform changing in between
NextGuess ==
    \/ ClearCache
    \/ GuessCall
    \/ PlatformChange(Platforms)

InitG == InitGuess /\ PaginateUnused /\ InitRelationships

SpecGuess == InitG /\ [][NextGuess]_vars

\* one generator of a paginated call and its consumer
InitP == ImporterUnused /\ InitPaginate /\ InitRelationships

NextPaginate ==
    \/ ConsumerNext
    \/ GeneratorRequest
    \/ GeneratorStop

SpecPaginate == InitP /\ [][NextPaginate]_vars

\* the consumer keeps asking for batches and the generator keeps running
SpecPaginateFair ==
    /\ SpecPaginate
    /\ WF_vars(ConsumerNext)
    /\ WF_vars(GeneratorRequest)
    /\ WF_vars(GeneratorStop)

\* calls of the create_*relationships functions
InitR == ImporterUnused /\ PaginateUnused /\ InitRelationships

NextRelationships ==
    \/ CallCreateRelationships
    \/ CallCreateTyped

SpecRelationships == InitR /\ [][NextRelationships]_vars

(* ------------------------ properties: importer ------------------------ *)

MaxOf(S) == CHOOSE x \in S : \A y \in S : y <= x

ModifiedTimes(ps) == {ps[k].modified : k \in 1..Len(ps)}

\* the watermark a state carries: its timestamp, else the configured default
WatermarkOf(st) ==
    iso_datetime_str_to_datetime(
        IF LATEST_PULSE_TIMESTAMP \in DOMAIN st
        THEN st[LATEST_PULSE_TIMESTAMP] ELSE default_latest_timestamp)

\* C1: the state run returns holds, under latest_pulse_timestamp, the
\* greatest of the datetime the run fetched from and the modified times of
\* all the pulses of the run, in whatever order they came (the fetch
\* datetime itself when no pulse came).
C1_WatermarkIsGreatest ==
    pc = "returned" =>
        /\ DOMAIN state = {LATEST_PULSE_TIMESTAMP}
        /\ state[LATEST_PULSE_TIMESTAMP] =
               IsoFormat(MaxOf({fetch_datetime} \cup ModifiedTimes(pulses)))

\* a run has returned whose newest pulse came first, newer than the fetch
\* datetime and followed by an older one
C1_Witness ==
    /\ pc = "returned"
    /\ Len(pulses) = 2
    /\ pulses[1].modified > fetch_datetime
    /\ pulses[2].modified < pulses[1].modified

\* C2: over a chain of runs the watermark never moves backwards: every
\* step leaves the watermark of the state at or above what it was, so a
\* run returns a timestamp at or above the one it started from, pulses
\* older than the fetch datetime included.
C2_WatermarkMonotonic ==
    [][WatermarkOf(state') >= WatermarkOf(state)]_vars

\* a chained run has returned all of whose pulses were older than the
\* datetime it fetched from
C2_Witness ==
    /\ pc = "returned"
    /\ chained
    /\ Len(pulses) >= 1
    /\ \A k \in 1..Len(pulses) : pulses[k].modified < fetch_datetime

\* C3: a run calls client.get_pulses_subscribed exactly once, with the
\* timestamp under latest_pulse_timestamp in the state it is given and with
\* default_latest_timestamp only when the state has no such key; a run
\* given the state the last run returned fetches from that run's watermark.
C3_FetchFromWatermark ==
    [][/\ (pc # "loop" /\ pc' = "loop") =>
              /\ fetch_calls' =
                     << iso_datetime_str_to_datetime(
                            IF LATEST_PULSE_TIMESTAMP \in DOMAIN state
                            THEN state[LATEST_PULSE_TIMESTAMP]
                            ELSE default_latest_timestamp) >>
              /\ pc = "returned" =>
                     /\ LATEST_PULSE_TIMESTAMP \in DOMAIN state
                     /\ fetch_calls' = <<latest_fetched_indicator_datetime>>
       /\ pc = "loop" => fetch_calls' = fetch_calls
      ]_vars

\* a run given the state of the run before it is in its loop, fetching
\* from a watermark that is not the default
C3_Witness ==
    /\ pc = "loop"
    /\ chained
    /\ Len(fetch_calls) = 1
    /\ fetch_calls[1] # iso_datetime_str_to_datetime(default_latest_timestamp)

\* C4: while a run is in its loop the pulses processed so far have each
\* been sent once, in order, with the configured update_existing_data; when
\* the run has returned its state every pulse of the run has been sent.
C4_OneBundlePerPulse ==
    pc \in {"loop", "returned"} =>
        /\ Len(sent) = idx - 1
        /\ \A k \in 1..Len(sent) :
               /\ sent[k].bundle[1] = "json"
               /\ sent[k].bundle[2].pulse = pulses[k]
               /\ sent[k].update = update_existing_data
        /\ pc = "returned" => Len(sent) = Len(pulses)

\* a run that updates existing data has returned after two different pulses
C4_Witness ==
    /\ pc = "returned"
    /\ update_existing_data
    /\ Len(pulses) = 2
    /\ pulses[1] # pulses[2]
    /\ Len(sent) = 2

(* --------------------- properties: malware guessing ------------------- *)

\* C5: with guessing enabled, between two clearings of the cache (one run)
\* no tag is looked up on the platform twice and the empty tag never is;
\* every tag of a call gets the guess its first occurrence got, malware or
\* not, whatever the platform holds by then.
C5_LookupOncePerTag ==
    guess_malware =>
        /\ \A i, j \in 1..Len(lookups) : i # j => lookups[i] # lookups[j]
        /\ \A i \in 1..Len(lookups) : lookups[i] # ""
        /\ \A t \in Range(call_tags) \ {""} :
               /\ t \in DOMAIN first_guess
               /\ GuessOf(call_malwares, t) = first_guess[t]

\* "a" then "b" were looked up, "a" did not resolve, and the last call,
\* on the tag "a" alone, was answered from the cache although the
\* platform now knows a malware "a"
C5_Witness ==
    /\ guess_malware
    /\ lookups = <<"a", "b">>
    /\ call_tags = <<"a">>
    /\ first_guess["a"] = GUESS_NOT_A_MALWARE
    /\ call_malwares = EmptyDict
    /\ fetch_malware_stix_id_by_name(platform, "a") # None

Least(S) == CHOOSE x \in S : \A y \in S : x <= y

\* the stix id of the first malware of the platform named name, else of the
\* first malware with the alias name, else None
FirstMatch(plat, name) ==
    LET named == {i \in 1..Len(plat) : plat[i].name = name}
        aliased == {i \in 1..Len(plat) : name \in plat[i].aliases}
    IN  IF named # {} THEN plat[Least(named)].stix_id_key
        ELSE IF aliased # {} THEN plat[Least(aliased)].stix_id_key
        ELSE None

\* the guess of a tag when a call starts: the cached one if the tag is in
\* the cache, else what the platform answers
GuessAtCall(cache, plat, tag) ==
    IF tag \in DOMAIN cache
    THEN (IF cache[tag] = GUESS_NOT_A_MALWARE THEN None ELSE cache[tag])
    ELSE FirstMatch(plat, tag)

\* a step that is a call of _guess_malwares_from_tags on some tags
GuessStep == call_tags' # <<>> /\ platform' = platform

\* what a call does with guessing disabled
DisabledGuess ==
    /\ call_malwares' = EmptyDict
    /\ lookups' = lookups
    /\ malware_guess_cache' = malware_guess_cache

\* C6 as stated: the keys of the returned mapping are exactly the non-empty
\* tags that resolve to a malware on the platform, each mapped to the first
\* malware matched by name, else by alias; with guessing disabled the
\* mapping is empty, nothing is looked up and the cache is unchanged.
C6_AsStated ==
    [][GuessStep =>
          IF guess_malware
          THEN /\ DOMAIN call_malwares' =
                      {t \in Range(call_tags') \ {""} :
                          FirstMatch(platform, t) # None}
               /\ \A t \in DOMAIN call_malwares' :
                      call_malwares'[t] = FirstMatch(platform, t)
          ELSE DisabledGuess
      ]_vars

\* C6 amended: the keys are exactly the non-empty tags whose guess is a
\* malware, the guess of a tag being the one in the cache when the tag is
\* cached and else the platform's answer (first match by name, else by
\* alias); with guessing disabled as stated.
C6_GuessedFromCacheOrPlatform ==
    [][GuessStep =>
          IF guess_malware
          THEN /\ DOMAIN call_malwares' =
                      {t \in Range(call_tags') \ {""} :
                          GuessAtCall(malware_guess_cache, platform, t) # None}
               /\ \A t \in DOMAIN call_malwares' :
                      call_malwares'[t] =
                          GuessAtCall(malware_guess_cache, platform, t)
          ELSE DisabledGuess
      ]_vars

\* a call on the tags "a" and "b" looked both up and returned the malware
\* named "a" for "a" and nothing for "b"
C6_Witness ==
    /\ guess_malware
    /\ call_tags = <<"a", "b">>
    /\ DOMAIN call_malwares = {"a"}
    /\ call_malwares["a"] = "malware--1"
    /\ lookups = <<"a", "b">>

(* ------------------------ properties: paginate ------------------------ *)

\* the number of requests of a call with limit lim against a total tot
RequestCount(lim, tot) ==
    LET pages == (tot + lim - 1) \div lim
    IN  IF pages < 1 THEN 1 ELSE pages

\* C7: in a call with limit L >= 1 whose responses so far all carried
\* pagination metadata with one total T, the k-th request had limit L and
\* offset (k-1)*L, every response's resources were yielded once in request
\* order, the generator goes on while it has made fewer than
\* max(1, ceil(T/L)) requests and stops once it has made that many.
C7_PagesByRequestedLimit ==
    \A T \in Totals :
        (limit >= 1 /\ paginations_seen = {<<T>>}) =>
            LET n == RequestCount(limit, T)
            IN  /\ Len(requests) <= n
                /\ \A k \in 1..Len(requests) :
                       requests[k] = [limit |-> limit, offset |-> (k - 1) * limit]
                /\ yielded = received
                /\ Len(yielded) = Len(requests)
                /\ next_batch(limit, offset, total) <=> Len(requests) < n
                /\ gen_pc = "done" => Len(requests) = n

\* a call with limit 2 against a total of 3 is exhausted after two
\* requests, the first of which returned two resources and the second none
C7_Witness ==
    /\ gen_pc = "done"
    /\ limit = 2
    /\ paginations_seen = {<<3>>}
    /\ requests = <<[limit |-> 2, offset |-> 0], [limit |-> 2, offset |-> 2]>>
    /\ yielded = << <<"r1", "r2">>, <<>> >>

\* the generator is about to call func
AboutToRequest == gen_pc = "running" /\ next_batch(limit, offset, total)

\* C9: a response that reports errors does not end the pagination: its
\* resources are yielded and the offset and the total are updated from its
\* pagination metadata as from any response.
C9_ErrorsOnlyLogged ==
    [][(AboutToRequest /\ response'.errors # <<>>) =>
          /\ gen_pc' = "suspended"
          /\ yield_value' = response'.resources
          /\ yielded' = LogAppend(yielded, response'.resources)
          /\ offset' =
                 IF response'.pagination # <<>> THEN offset + limit ELSE offset
          /\ total' =
                 IF response'.pagination # <<>>
                 THEN <<response'.pagination[1].total>> ELSE total
      ]_vars

\* the generator is suspended at its yield after a second response that
\* reported errors, carried pagination metadata and resources
C9_Witness ==
    /\ gen_pc = "suspended"
    /\ response.errors # <<>>
    /\ response.pagination # <<>>
    /\ yield_value = <<"r1", "r2">>
    /\ Len(requests) = 2
    /\ offset = 2 * limit
    /\ limit >= 1

\* C10: whatever the limit and the responses, a generator whose consumer
\* keeps asking for batches is eventually exhausted.
C10_EventuallyExhausted == <>(gen_pc = "done")

(* -------------------- properties: create_relationships ---------------- *)

\* the relationship type a call uses
TypeOfCall(call) ==
    CASE call.fn = "create_targets_relationships" -> "targets"
      [] call.fn = "create_uses_relationships" -> "uses"
      [] call.fn = "create_indicates_relationships" -> "indicates"
      [] OTHER -> call.relationship_type

\* C8: a call with sources S and targets T returns |S| * |T|
\* relationships, source-major: the one at (i-1)*|T| + j has the type of
\* the call, the id of S[i] as source_ref and the id of T[j] as target_ref
\* (nothing when S or T is empty); the typed functions use "targets",
\* "uses" and "indicates".
C8_RelationshipPerPair ==
    rel_call # NoCall =>
        LET S == rel_call.sources
            T == rel_call.targets
        IN  /\ Len(relationships) = Len(S) * Len(T)
            /\ \A i \in 1..Len(S), j \in 1..Len(T) :
                   relationships[(i - 1) * Len(T) + j] =
                       [relationship_type |-> TypeOfCall(rel_call),
                        source_ref |-> S[i].id,
                        target_ref |-> T[j].id]

\* create_uses_relationships returned four relationships for two different
\* sources and two different targets
C8_Witness ==
    /\ rel_call.fn = "create_uses_relationships"
    /\ Len(rel_call.sources) = 2
    /\ Len(rel_call.targets) = 2
    /\ rel_call.sources[1] # rel_call.sources[2]
    /\ rel_call.targets[1] # rel_call.targets[2]
    /\ rel_call.sources # rel_call.targets
    /\ Len(relationships) = 4

\* C11: run has no handler: when the fetch, the building of a bundle or the
\* sending of a bundle raises, the state the run was given is left as it
\* was (nothing is returned, the watermark is not advanced) while the
\* bundles of the pulses before the failing one stay sent, one per pulse
\* and in order; after a failed run the one fetch that was attempted was
\* from the watermark of that unchanged state, and the run started next,
\* from the same state, fetches from that same datetime again.
C11_FailedRunKeepsWatermark ==
    [][/\ pc' = "raised" =>
              /\ state' = state
              /\ fetch_calls' = <<WatermarkOf(state)>>
              /\ pc = "loop" =>
                     /\ sent' = sent
                     /\ Len(sent) = idx - 1
                     /\ \A k \in 1..Len(sent) :
                            /\ sent[k].bundle = Serialize(sent[k].bundle[2])
                            /\ sent[k].bundle[2].pulse = pulses[k]
       /\ (pc = "raised" /\ pc' = "loop") =>
              /\ state' = state
              /\ fetch_calls' = fetch_calls
              /\ fetch_datetime' = WatermarkOf(state)
      ]_vars

\* a run has raised at its second pulse after the bundle of its first, a
\* pulse newer than the watermark of the state, was sent
C11_Witness ==
    /\ pc = "raised"
    /\ Len(sent) = 1
    /\ sent[1].bundle[2].pulse.modified > WatermarkOf(state)

\* the tags of the pulses of the run processed before position i
TagsSeen(ps, i) == UNION {Range(ps[k].tags) : k \in 1..(i - 1)}

\* what a lookup of the tag on the platform puts in the cache
FreshGuess(plat, tag) ==
    IF FirstMatch(plat, tag) = None
    THEN GUESS_NOT_A_MALWARE ELSE FirstMatch(plat, tag)

\* a step that starts a run: outside the loop only the platform changing
\* and the start of a run are steps
RunStarts == pc # "loop" /\ platform' = platform

\* a step of the loop on the pulse at idx, completed or left by an exception
PulseStep == pc = "loop" /\ idx <= Len(pulses) /\ platform' = platform

\* the cache is empty when a run starts, whatever the run before left in
\* it; a step of the loop keeps the entries of the cache as they are and
\* adds only non-empty tags of its pulse, each looked up in that step and
\* mapped to what the platform answers then, the sentinel when it knows no
\* such malware; the cache holds exactly the tags looked up since the run
\* started, all of them tags of the pulses processed so far
CacheOfThisRun ==
    /\ RunStarts => malware_guess_cache' = EmptyDict /\ lookups' = <<>>
    /\ PulseStep =>
           /\ \A t \in DOMAIN malware_guess_cache :
                  /\ t \in DOMAIN malware_guess_cache'
                  /\ malware_guess_cache'[t] = malware_guess_cache[t]
           /\ \A t \in DOMAIN malware_guess_cache' \ DOMAIN malware_guess_cache :
                  /\ t \in Range(pulses[idx].tags) \ {""}
                  /\ t \in Range(lookups') \ Range(lookups)
                  /\ malware_guess_cache'[t] = FreshGuess(platform, t)
    /\ DOMAIN malware_guess_cache' = Range(lookups')
    /\ pc' \in {"loop", "returned"} =>
           DOMAIN malware_guess_cache' \subseteq TagsSeen(pulses', idx')

\* the claim C12 as first stated: the cache is that of the run alone and,
\* guessing enabled or not, every tag of a processed pulse that was not
\* looked up before in the run, the empty tag too, is looked up
C12_AsStated ==
    [][/\ CacheOfThisRun
       /\ (PulseStep /\ pc' = "loop") =>
              \A t \in Range(pulses[idx].tags) :
                  t \notin Range(lookups) => t \in Range(lookups')
      ]_vars

\* C12: the malware guess cache is emptied at the start of every run,
\* before the pulses are fetched, so nothing cached in one run is used in a
\* later one: at every point of a run the cache holds only tags of the
\* pulses of that run, each mapped to the sentinel or to the stix id the
\* platform returned in that run, and, with guessing enabled, the first
\* occurrence of a non-empty tag in a run is looked up on the platform
\* (with guessing disabled, and for the empty tag, there is no lookup).
C12_CacheFreshPerRun ==
    [][/\ CacheOfThisRun
       /\ (PulseStep /\ pc' = "loop") =>
              \A t \in Range(pulses[idx].tags) :
                  IF guess_malware /\ t # ""
                  THEN t \notin Range(lookups) => t \in Range(lookups')
                  ELSE t \notin Range(lookups')
      ]_vars

\* a run that follows one that returned has processed two pulses carrying
\* the empty tag and "a": "a" was looked up once, at the first, and is
\* cached with the stix id of the malware the platform knows
C12_Witness ==
    /\ pc = "loop"
    /\ chained
    /\ guess_malware
    /\ idx = 3
    /\ pulses[1].tags = <<"", "a">>
    /\ pulses[2].tags = <<"", "a">>
    /\ lookups = <<"a">>
    /\ malware_guess_cache = [t \in {"a"} |-> "malware--1"]

====
